---------------------------- MODULE Spec2Model ----------------------------
(***************************************************************************)
(* State-machine model of AsyncDnsClient (async-dns-client.cpp/.hpp) and   *)
(* of the driver in main.cpp.                                              *)
(*                                                                         *)
(* Every completion handler of the client is bound to io_strand_, so a     *)
(* handler is one atomic action that may start only while no other strand  *)
(* task is in progress.  The task posted by async_query is modelled in two *)
(* steps (table insert; timer arm and send submit) so that what other      *)
(* threads (callers, the network, stop()) can observe in between is part   *)
(* of the model.                                                           *)
(***************************************************************************)
EXTENDS Integers, Sequences, FiniteSets, TLC

(* ------------------------------ bounds -------------------------------- *)
\* Query objects the application may create (Q = 1..NumQueries).
NumQueries == 2
\* Transaction IDs are 1..MaxId, an abstraction of the 16-bit ID space.
MaxId == 2

\* Worker threads of a started client (0: the pool is empty).
MaxWorkers == 2

(* ------------------------- program constants -------------------------- *)
\* ns_f_rcode is the low 4 bits of the header's flag word.
RcodeModulus == 16
\* Header flag word of a response with QR, RD and RA set and RCODE 0.
ResponseFlags == 33152
\* ns_r_nxdomain
NXDOMAIN == 3

Q == 1 .. NumQueries
Ids == 1 .. MaxId
NoQuery == 0
Rcodes == 0 .. (RcodeModulus - 1)

\* Endpoints a datagram can come from; nameserver_ is the configured one.
nameserver_ == "ns"
Endpoints == {nameserver_, "other"}

VARIABLES
  phase,        \* lifecycle of the client object
  n_workers_,   \* AsyncDnsClient::n_workers_
  socket_open,  \* socket_ is open
  nqueries,     \* number of async_query calls the application makes
  replies,      \* the (flags, answer section) contents the nameserver uses
  qstate,       \* per query: position of async_query and of its posted task
  id,           \* Query::id
  done,         \* Query::done
  cbs,          \* per query: the sequence of invocations of Query::cb
  queries_,     \* AsyncDnsClient::queries_ : Ids -> Q \cup {NoQuery}
  timer,        \* Query::timer and its async_wait completion
  send,         \* the async_send_to of the query's request and its completion
  onWire,       \* the query's request left the socket
  recv,         \* state of the receive loop
  rerr,         \* error code of the completed async_receive_from
  outstanding,  \* async_receive_from operations issued and not completed
  response,     \* static buffer of start_receiving (with the parsed content)
  remote        \* static sender endpoint of start_receiving

vars == << phase, n_workers_, socket_open, nqueries, replies, qstate, id, done,
           cbs, queries_, timer, send, onWire, recv, rerr, outstanding,
           response, remote >>

qvars == << qstate, id, done, cbs, queries_, timer, send, onWire >>

\* Content of the static buffer: the header's ID and flag word, the types
\* of the answer records, whether ns_initparse accepts the datagram; and,
\* for reference, the RCODE its sender encoded and the query it answers.
NoDgram == [id |-> 0, flags |-> 0, an |-> << >>, wellformed |-> FALSE,
            rcode |-> 0, q |-> NoQuery]

\* A nameserver's answer with RCODE rc and answer section an.
Reply(rc, an) == [rcode |-> rc, flags |-> ResponseFlags + rc, an |-> an]

(* --------------------------- pure helpers ----------------------------- *)

\* A variant that reads a 3-bit field.
GetRcodeNarrow(flags) == flags % 8

\* ns_msg_getflag(handle, ns_f_rcode)
GetRcode(flags) == flags % RcodeModulus

\* The answer loop of the receive handler: A and AAAA records go to addrs,
\* CNAME records to cnames, other types and unparsable records are skipped.
RECURSIVE CountTypes(_, _)
CountTypes(an, types) ==
  IF an = << >> THEN 0
  ELSE (IF Head(an) \in types THEN 1 ELSE 0) + CountTypes(Tail(an), types)

ParseAddrs(an) == CountTypes(an, {"A", "AAAA"})
ParseCnames(an) == CountTypes(an, {"CNAME"})

\* The arguments of one invocation of the user callback.
CbError == [result |-> "ERROR", rcode |-> 0, addrs |-> 0, cnames |-> 0]
CbTimeout == [result |-> "TIMEOUT", rcode |-> 0, addrs |-> 0, cnames |-> 0]
CbSuccess(flags, an) ==
  [result |-> "SUCCESS", rcode |-> GetRcode(flags),
   addrs |-> ParseAddrs(an), cnames |-> ParseCnames(an)]

\* steady_timer::cancel(): a pending wait completes with operation_aborted;
\* a wait whose completion is already queued, or that never started, is
\* not affected.
Cancel(t) == IF t = "waiting" THEN "cancelled" ELSE t

\* A variant of erase that leaves the entry in place.
EraseNothing(tbl, key) == tbl

\* queries_.erase(key)
Erase(tbl, key) == [tbl EXCEPT ![key] = NoQuery]

\* queries_[key] = q
Install(tbl, key, q) == [tbl EXCEPT ![key] = q]

\* A task of the strand is in progress (between its first and last step).
StrandBusy == \E q \in Q : qstate[q] = "installed"

\* A variant in which the workers go on executing handlers after stop().
CanRunAfterStop == phase # "constructed" /\ n_workers_ >= 1

\* A worker thread can pick up a new handler: io_.run() is executing in at
\* least one worker and io_.stop() has not been called.
CanRun == phase \in {"running", "closing"} /\ n_workers_ >= 1

CanStartTask == CanRun /\ ~StrandBusy

(* ------------------------------ Init ---------------------------------- *)

InitCommon ==
  /\ phase = "constructed"
  /\ n_workers_ \in {0, MaxWorkers}
  /\ socket_open = TRUE
  /\ qstate = [q \in Q |-> "idle"]
  /\ id = [q \in Q |-> 0]
  /\ done = [q \in Q |-> FALSE]
  /\ cbs = [q \in Q |-> << >>]
  /\ queries_ = [k \in Ids |-> NoQuery]
  /\ timer = [q \in Q |-> "unset"]
  /\ send = [q \in Q |-> "none"]
  /\ onWire = [q \in Q |-> FALSE]
  /\ recv = "none"
  /\ rerr = "none"
  /\ outstanding = 0
  /\ response = NoDgram
  /\ remote = "none"

\* The workload of main.cpp against a nameserver that answers NOERROR with
\* records or NXDOMAIN without.
Init ==
  /\ InitCommon
  /\ nqueries = NumQueries
  /\ replies = { Reply(0, <<"CNAME", "A", "TXT">>), Reply(NXDOMAIN, << >>) }

\* One query against a nameserver that may answer with any RCODE, with or
\* without records.
InitRcode ==
  /\ InitCommon
  /\ nqueries = 1
  /\ replies = { Reply(rc, an) : rc \in Rcodes,
                                 an \in { << >>, <<"AAAA", "BAD", "CNAME">> } }

(* ------------------------- lifecycle: start --------------------------- *)

\* AsyncDnsClient::start
start ==
  /\ phase = "constructed"
  /\ phase' = "running"
  /\ recv' = "posted"
  /\ UNCHANGED << n_workers_, socket_open, nqueries, replies, qvars, rerr,
                  outstanding, response, remote >>

(* ----------------------------- async_query ---------------------------- *)

\* A variant of async_query whose encode-failure path does not set done.
async_queryNoDone(q, encOk, newid) ==
  /\ phase # "stopped"
  /\ q <= nqueries
  /\ qstate[q] = "idle"
  /\ IF encOk
       THEN /\ id' = [id EXCEPT ![q] = newid]
            /\ qstate' = [qstate EXCEPT ![q] = "posted"]
            /\ UNCHANGED << cbs, done >>
       ELSE /\ cbs' = [cbs EXCEPT ![q] = Append(@, CbError)]
            /\ qstate' = [qstate EXCEPT ![q] = "failed"]
            /\ UNCHANGED << id, done >>
  /\ UNCHANGED << phase, n_workers_, socket_open, nqueries, replies, queries_,
                  timer, send, onWire, recv, rerr, outstanding,
                  response, remote >>

\* AsyncDnsClient::async_query, the part that runs on the caller's thread.
\* encOk: res_ninit and res_nmkquery succeed; newid: the ID res_nmkquery
\* wrote into the header.
\* The application makes nqueries calls, all before stop() has returned
\* (main.cpp, lines 108-114).
async_query(q, encOk, newid) ==
  /\ phase # "stopped"
  /\ q <= nqueries
  /\ qstate[q] = "idle"
  /\ IF encOk
       THEN /\ id' = [id EXCEPT ![q] = newid]
            /\ qstate' = [qstate EXCEPT ![q] = "posted"]
            /\ UNCHANGED << cbs, done >>
       ELSE /\ cbs' = [cbs EXCEPT ![q] = Append(@, CbError)]
            /\ done' = [done EXCEPT ![q] = TRUE]
            /\ qstate' = [qstate EXCEPT ![q] = "failed"]
            /\ UNCHANGED id
  /\ UNCHANGED << phase, n_workers_, socket_open, nqueries, replies, queries_,
                  timer, send, onWire, recv, rerr, outstanding,
                  response, remote >>


(* ------------------- the task posted by async_query ------------------- *)

\* A variant of the task's first step that submits the send before the
\* table insert.
RegisterInstallAfterSend(q) ==
  /\ CanStartTask
  /\ qstate[q] = "posted"
  /\ send' = [send EXCEPT ![q] = IF socket_open THEN "pending" ELSE "err"]
  /\ qstate' = [qstate EXCEPT ![q] = "installed"]
  /\ UNCHANGED << phase, n_workers_, socket_open, nqueries, replies, id, done,
                  cbs, queries_, timer, onWire, recv, rerr, outstanding,
                  response, remote >>

\* Line 138: queries_[query->id] = query.  First step of the posted task.
RegisterInstall(q) ==
  /\ CanStartTask
  /\ qstate[q] = "posted"
  /\ queries_' = Install(queries_, id[q], q)
  /\ qstate' = [qstate EXCEPT ![q] = "installed"]
  /\ UNCHANGED << phase, n_workers_, socket_open, nqueries, replies, id, done,
                  cbs, timer, send, onWire, recv, rerr, outstanding,
                  response, remote >>

\* Lines 140-169: timer.expires_after, timer.async_wait and
\* socket_.async_send_to.  On a closed socket the send completes at once
\* with an error.  Last step of the posted task.
RegisterSend(q) ==
  /\ qstate[q] = "installed"
  /\ timer' = [timer EXCEPT ![q] = "waiting"]
  /\ send' = [send EXCEPT ![q] = IF socket_open THEN "pending" ELSE "err"]
  /\ qstate' = [qstate EXCEPT ![q] = "active"]
  /\ UNCHANGED << phase, n_workers_, socket_open, nqueries, replies, id, done,
                  cbs, queries_, onWire, recv, rerr, outstanding,
                  response, remote >>

(* ------------------------------- timer -------------------------------- *)

\* The wait of the query's timer completes without error: its handler is
\* queued on the strand.
TimerExpire(q) ==
  /\ CanRun
  /\ timer[q] = "waiting"
  /\ timer' = [timer EXCEPT ![q] = "expired"]
  /\ UNCHANGED << phase, n_workers_, socket_open, nqueries, replies, qstate, id,
                  done, cbs, queries_, send, onWire, recv, rerr, outstanding,
                  response,
                  remote >>

\* Variants of the test of line 143: one that does not read done, one that
\* reads the error code the wrong way round.
TimeoutDueIgnoringDone(aborted, isDone) == ~aborted
TimeoutDueOnAbort(aborted, isDone) == aborted /\ ~isDone

\* Line 143: !err && !query->done
TimeoutDue(aborted, isDone) == ~aborted /\ ~isDone

\* Lines 142-152: the completion handler of timer.async_wait.
TimerHandler(q) ==
  /\ CanStartTask
  /\ timer[q] \in {"expired", "cancelled"}
  /\ timer' = [timer EXCEPT ![q] = "finished"]
  /\ IF TimeoutDue(timer[q] = "cancelled", done[q])
       THEN /\ cbs' = [cbs EXCEPT ![q] = Append(@, CbTimeout)]
            /\ done' = [done EXCEPT ![q] = TRUE]
            /\ queries_' = Erase(queries_, id[q])
       ELSE UNCHANGED << cbs, done, queries_ >>
  /\ UNCHANGED << phase, n_workers_, socket_open, nqueries, replies, qstate, id,
                  send, onWire, recv, rerr, outstanding, response, remote >>

(* -------------------------------- send -------------------------------- *)

\* The async_send_to of the query's request completes; without error the
\* request is on the wire.
SendComplete(q, ok) ==
  /\ send[q] = "pending"
  /\ send' = [send EXCEPT ![q] = IF ok THEN "ok" ELSE "err"]
  /\ onWire' = [onWire EXCEPT ![q] = ok]
  /\ UNCHANGED << phase, n_workers_, socket_open, nqueries, replies, qstate, id,
                  done, cbs, queries_, timer, recv, rerr, outstanding, response,
                  remote >>

\* A variant of the tests of lines 159 and 162 that does not read done.
SendErrorDueIgnoringDone(err, isDone) == err

\* Lines 159, 162: err, and !query->done
SendErrorDue(err, isDone) == err /\ ~isDone

\* Lines 158-169: the completion handler of async_send_to.
SendHandler(q) ==
  /\ CanStartTask
  /\ send[q] \in {"ok", "err"}
  /\ send' = [send EXCEPT ![q] = "finished"]
  /\ IF SendErrorDue(send[q] = "err", done[q])
       THEN /\ timer' = [timer EXCEPT ![q] = Cancel(@)]
            /\ cbs' = [cbs EXCEPT ![q] = Append(@, CbError)]
            /\ done' = [done EXCEPT ![q] = TRUE]
            /\ queries_' = Erase(queries_, id[q])
       ELSE UNCHANGED << timer, cbs, done, queries_ >>
  /\ UNCHANGED << phase, n_workers_, socket_open, nqueries, replies, qstate, id,
                  onWire, recv, rerr, outstanding, response, remote >>

(* ---------------------------- receive loop ---------------------------- *)

\* Lines 193-197: socket_.async_receive_from.  On a closed socket the
\* operation completes at once with an error other than operation_aborted.
ArmedRecv == IF socket_open THEN "armed" ELSE "ready"
ArmedErr == IF socket_open THEN "none" ELSE "other"

\* Lines 193-197: the operation stays outstanding while the socket is open.
IssueRecv(n) == IF socket_open THEN n + 1 ELSE n

\* A variant of the drop paths without the return after start_receiving():
\* the handler goes on and calls start_receiving() a second time.
DropIssueTwice(n) == IssueRecv(IssueRecv(n))

\* Lines 207-208, 218-219, 236-237, 243-244: start_receiving(); return.
DropIssue(n) == IssueRecv(n)

\* A variant of the drop paths that returns without start_receiving().
DropRecvEnds == "ended"

\* Lines 207, 218, 236, 243: start_receiving() after a dropped datagram.
DropRecv == ArmedRecv
DropErr == ArmedErr

\* Line 36: the task posted by start() calls start_receiving().
start_receiving ==
  /\ CanStartTask
  /\ recv = "posted"
  /\ recv' = ArmedRecv
  /\ rerr' = ArmedErr
  /\ outstanding' = IssueRecv(outstanding)
  /\ UNCHANGED << phase, n_workers_, socket_open, nqueries, replies, qvars,
                  response, remote >>

\* The outstanding async_receive_from completes with the nameserver's
\* answer to the request of query q, which reached it: the answer carries
\* the request's ID and is copied to the static buffer, its sender to
\* remote.  The nameserver may answer late and more than once.
RecvReply(q, r) ==
  /\ CanRun
  /\ recv = "armed"
  /\ onWire[q]
  /\ response' = [id |-> id[q], flags |-> r.flags, an |-> r.an,
                  wellformed |-> TRUE, rcode |-> r.rcode, q |-> q]
  /\ remote' = nameserver_
  /\ recv' = "ready"
  /\ rerr' = "none"
  /\ outstanding' = outstanding - 1
  /\ UNCHANGED << phase, n_workers_, socket_open, nqueries, replies, qvars >>

\* The outstanding async_receive_from completes with a datagram nobody
\* asked for: from any endpoint, with any ID, well-formed or not.
RecvUnsolicited(ep, k, wf) ==
  /\ CanRun
  /\ recv = "armed"
  /\ response' = [id |-> k, flags |-> ResponseFlags, an |-> << >>,
                  wellformed |-> wf, rcode |-> 0, q |-> NoQuery]
  /\ remote' = ep
  /\ recv' = "ready"
  /\ rerr' = "none"
  /\ outstanding' = outstanding - 1
  /\ UNCHANGED << phase, n_workers_, socket_open, nqueries, replies, qvars >>

\* The outstanding async_receive_from completes with an error of the
\* transport while the socket is open.
RecvFail ==
  /\ CanRun
  /\ recv = "armed"
  /\ recv' = "ready"
  /\ rerr' = "other"
  /\ outstanding' = outstanding - 1
  /\ UNCHANGED << phase, n_workers_, socket_open, nqueries, replies, qvars,
                  response, remote >>

\* A variant of the endpoint test that accepts every sender.
EndpointAny(ep) == TRUE

\* Line 205: remote != nameserver_
EndpointOk(ep) == ep = nameserver_

\* Line 216: ns_initparse(response, received, &handle) == 0
ParseOk(buf) == buf.wellformed

\* Line 222: ns_get16(response)
ResponseId(buf) == buf.id

\* Lines 233-245: table lookup; the query the reply is delivered to, or
\* NoQuery when the ID is not found or the query found is done.
Correlate(tbl, k, dn) ==
  IF tbl[k] = NoQuery THEN NoQuery
  ELSE IF dn[tbl[k]] THEN NoQuery
  ELSE tbl[k]

\* The query that the datagram in the buffer is delivered to (NoQuery when
\* the datagram is dropped).
Target ==
  IF ~EndpointOk(remote) THEN NoQuery
  ELSE IF ~ParseOk(response) THEN NoQuery
  ELSE Correlate(queries_, ResponseId(response), done)

\* Lines 197-287: the completion handler of async_receive_from.
RecvHandler ==
  /\ CanStartTask
  /\ recv = "ready"
  /\ IF rerr # "none"
       THEN /\ recv' = "ended"
            /\ rerr' = rerr
            /\ UNCHANGED << timer, cbs, done, queries_, outstanding >>
       ELSE IF Target = NoQuery
              THEN /\ recv' = DropRecv
                   /\ rerr' = DropErr
                   /\ outstanding' = DropIssue(outstanding)
                   /\ UNCHANGED << timer, cbs, done, queries_ >>
              ELSE LET q == Target IN
                      /\ recv' = ArmedRecv
                      /\ rerr' = ArmedErr
                      /\ outstanding' = IssueRecv(outstanding)
                      /\ timer' = [timer EXCEPT ![q] = Cancel(@)]
                      /\ cbs' = [cbs EXCEPT ![q] =
                                   Append(@, CbSuccess(response.flags, response.an))]
                      /\ done' = [done EXCEPT ![q] = TRUE]
                      /\ queries_' = Erase(queries_, id[q])
  /\ UNCHANGED << phase, n_workers_, socket_open, nqueries, replies, qstate, id,
                  send, onWire, response, remote >>

(* -------------------------- lifecycle: stop --------------------------- *)

\* Line 43: socket_.close().  Outstanding operations on the socket complete
\* with operation_aborted.
StopClose ==
  /\ phase = "running"
  /\ phase' = "closing"
  /\ socket_open' = FALSE
  /\ recv' = IF recv = "armed" THEN "ready" ELSE recv
  /\ rerr' = IF recv = "armed" THEN "aborted" ELSE rerr
  /\ outstanding' = 0
  /\ send' = [q \in Q |-> IF send[q] = "pending" THEN "err" ELSE send[q]]
  /\ UNCHANGED << n_workers_, nqueries, replies, qstate, id, done, cbs, queries_,
                  timer, onWire, response, remote >>

\* Line 44: io_.stop().  No further handler is started.
StopIo ==
  /\ phase = "closing"
  /\ phase' = "halting"
  /\ UNCHANGED << n_workers_, socket_open, nqueries, replies, qvars, recv,
                  rerr, outstanding, response, remote >>

\* Lines 46-50: the workers are joined; a handler in progress finishes
\* first.
StopJoin ==
  /\ phase = "halting"
  /\ ~StrandBusy
  /\ phase' = "stopped"
  /\ UNCHANGED << n_workers_, socket_open, nqueries, replies, qvars, recv,
                  rerr, outstanding, response, remote >>

(* ------------------------------- Next --------------------------------- *)

Running ==
  \/ start
  \/ \E q \in Q, encOk \in BOOLEAN, newid \in Ids : async_query(q, encOk, newid)
  \/ \E q \in Q : RegisterInstall(q)
  \/ \E q \in Q : RegisterSend(q)
  \/ \E q \in Q : TimerExpire(q)
  \/ \E q \in Q : TimerHandler(q)
  \/ \E q \in Q, ok \in BOOLEAN : SendComplete(q, ok)
  \/ \E q \in Q : SendHandler(q)
  \/ start_receiving
  \/ \E q \in Q, r \in replies : RecvReply(q, r)
  \/ \E ep \in Endpoints, k \in Ids, wf \in BOOLEAN : RecvUnsolicited(ep, k, wf)
  \/ RecvFail
  \/ RecvHandler

Next ==
  \/ Running
  \/ StopClose
  \/ StopIo
  \/ StopJoin

Spec == Init /\ [][Next]_vars

SpecRcode == InitRcode /\ [][Next]_vars

\* Scheduling of a running client: the workers execute every ready task of
\* the strand and a waiting timer expires.
QueryProgress ==
  \E q \in Q : RegisterInstall(q) \/ RegisterSend(q) \/ TimerExpire(q)
                  \/ TimerHandler(q)

\* The client while stop() is never called.
LiveSpec == Init /\ [][Running]_vars /\ WF_vars(QueryProgress)


(* ============================== claims ================================ *)

\* The query's task has installed it in the table (line 138 has run).
Registered(q) == qstate[q] \in {"installed", "active"}

\* The query is the value of some table entry.
InTable(q) == \E k \in Ids : queries_[k] = q

\* This step is a run of the receive-completion handler.
HandlerStep == recv = "ready" /\ << recv', rerr' >> # << recv, rerr >>

\* The handler that runs in this step read a datagram (no error code).
DatagramStep == HandlerStep /\ rerr = "none"

\* After this step an async_receive_from has been issued again.
Reissued ==
  \/ recv' = "armed"
  \/ ~socket_open /\ recv' = "ready" /\ rerr' = "other"

Results == {"SUCCESS", "TIMEOUT", "ERROR"}

\* C1: under every interleaving of reply, timer expiry, timer cancellation
\* and send completion, the callback of a query is invoked at most once,
\* with SUCCESS, TIMEOUT or ERROR; done goes from false to true at most once
\* (it never goes back), and the callback is invoked in the task that sets
\* done.
C1_AtMostOnce ==
  [][\A q \in Q :
       /\ Len(cbs'[q]) <= 1
       /\ \A i \in 1 .. Len(cbs'[q]) : cbs'[q][i].result \in Results
       /\ done[q] => done'[q] /\ cbs'[q] = cbs[q]
       /\ cbs'[q] # cbs[q] <=> ~done[q] /\ done'[q]]_vars

\* A query was resolved by a reply or a send error while the completion of
\* its expired timer was already queued.
C1_Witness ==
  \E q \in Q : /\ done[q]
               /\ timer[q] = "expired"
               /\ Len(cbs[q]) = 1
               /\ cbs[q][1].result \in {"SUCCESS", "ERROR"}


\* C3: no two queries that are registered and not done share a transaction
\* ID, and installing a query never replaces the table entry of another
\* query.
C3_UniqueIds ==
  /\ \A q1, q2 \in Q :
       (q1 # q2 /\ Registered(q1) /\ Registered(q2) /\ ~done[q1] /\ ~done[q2])
         => id[q1] # id[q2]
  /\ \A q \in Q : (Registered(q) /\ ~done[q]) => queries_[id[q]] = q

\* C5: when the send of a query's request is submitted, the query is the
\* table entry of its ID; the receive handler never runs while the task that
\* registers a query is between its table insert and its send submit; and a
\* reply to a request that reached the nameserver is handled only after that
\* request's query was registered.
C5_RegisterBeforeSend ==
  [][/\ \A q \in Q :
          /\ (send[q] = "none" /\ send'[q] # "none")
               => queries_[id[q]] = q /\ queries_'[id[q]] = q
          /\ (DatagramStep /\ response.q = q) => qstate[q] = "active"
     /\ (\E q \in Q : qstate[q] = "installed") => ~HandlerStep]_vars

\* The completion of a receive is queued while a registration task is in
\* progress, and a reply to a sent request has been delivered.
C5_Witness ==
  /\ \E p \in Q : qstate[p] = "installed"
  /\ recv = "ready" /\ rerr = "none"
  /\ \E q \in Q : onWire[q] /\ Len(cbs[q]) = 1 /\ cbs[q][1].result = "SUCCESS"

\* C6: a query whose done flag is true is not the value of any table entry.
C6_DoneNotInTable == \A q \in Q : done[q] => ~InTable(q)

\* A query timed out and is done while the table holds an entry under the
\* ID it had, for another query.
C6_Witness ==
  \E q, p \in Q : /\ done[q] /\ qstate[q] = "active"
                  /\ cbs[q][1].result = "TIMEOUT"
                  /\ InTable(p) /\ id[p] = id[q]

\* C7: a datagram from another endpoint than the nameserver invokes no
\* callback, cancels no timer, changes no done flag and no table entry, also
\* when its ID is the key of a pending query; the receive is issued again.
C7_WrongEndpointDropped ==
  [][(DatagramStep /\ remote # nameserver_)
       => /\ UNCHANGED << cbs, timer, done, queries_ >>
          /\ Reissued]_vars

\* A datagram of another endpoint, carrying the ID of a pending query, has
\* been handled: the buffer still holds it and the next receive is armed.
C7_Witness ==
  /\ recv = "armed" /\ remote = "other" /\ response.wellformed
  /\ queries_[response.id] # NoQuery
  /\ ~done[queries_[response.id]]
  /\ timer[queries_[response.id]] = "waiting"

\* C8: a well-formed datagram of the nameserver whose ID is no key of the
\* table invokes no callback and changes neither the table, a timer nor a
\* done flag, and the receive is issued again; a well-formed datagram of the
\* nameserver whose ID is the key of a query that is not done is delivered to
\* that query as SUCCESS.
C8_UnknownIdDropped ==
  [][(DatagramStep /\ remote = nameserver_ /\ response.wellformed)
       => IF queries_[response.id] = NoQuery
            THEN UNCHANGED << cbs, timer, done, queries_ >> /\ Reissued
            ELSE LET q == queries_[response.id] IN
                 ~done[q] => /\ Len(cbs'[q]) = Len(cbs[q]) + 1
                             /\ cbs'[q][Len(cbs'[q])].result = "SUCCESS"
                             /\ Reissued]_vars

\* The late reply to a query that timed out has been dropped, the receive
\* is armed again, and the other query got SUCCESS.
C8_Witness ==
  \E q, p \in Q :
    /\ cbs[q] = << CbTimeout >>
    /\ response.q = q /\ remote = nameserver_
    /\ queries_[response.id] = NoQuery
    /\ recv = "armed"
    /\ p # q /\ Len(cbs[p]) = 1 /\ cbs[p][1].result = "SUCCESS"

\* C9: a query whose encoding failed got exactly one callback, ERROR with
\* rcode 0 and no addrs or cnames, and is done; it has no ID, no table entry,
\* no timer and no send; and the failing call changes neither the table nor
\* any other query.
C9_EncodeFailure ==
  [][\A q \in Q :
       /\ qstate'[q] = "failed"
            => /\ cbs'[q] = << [result |-> "ERROR", rcode |-> 0,
                                addrs |-> 0, cnames |-> 0] >>
               /\ done'[q]
               /\ id'[q] = 0 /\ ~InTable(q)' /\ timer'[q] = "unset"
               /\ send'[q] = "none" /\ ~onWire'[q]
       /\ (qstate[q] = "idle" /\ qstate'[q] = "failed")
            => /\ UNCHANGED << queries_, timer, send, onWire, id >>
               /\ \A p \in Q \ {q} :
                    qstate'[p] = qstate[p] /\ cbs'[p] = cbs[p]
                      /\ done'[p] = done[p]]_vars

\* The encoding of one query failed while another is pending in the table,
\* and the client went on to resolve that one.
C9_Witness ==
  \E q, p \in Q : /\ qstate[q] = "failed"
                  /\ qstate[p] = "active" /\ timer[p] = "finished"
                  /\ Len(cbs[p]) = 1

\* C10: a well-formed datagram of the nameserver whose ID is the key of a
\* query that is not done gives that query SUCCESS with the RCODE the sender
\* encoded, whatever the RCODE; with an empty answer section addrs and
\* cnames are empty.
C10_RcodeVerbatim ==
  [][(DatagramStep /\ remote = nameserver_ /\ response.wellformed
        /\ queries_[response.id] # NoQuery
        /\ ~done[queries_[response.id]])
       => LET q == queries_[response.id] IN
          /\ Len(cbs'[q]) = 1
          /\ cbs'[q][1].result = "SUCCESS"
          /\ cbs'[q][1].rcode = response.rcode
          /\ response.an = << >>
               => cbs'[q][1].addrs = 0 /\ cbs'[q][1].cnames = 0]_vars

\* The query got SUCCESS with the highest RCODE and no records.
C10_Witness ==
  \E q \in Q : cbs[q] = << [result |-> "SUCCESS", rcode |-> RcodeModulus - 1,
                            addrs |-> 0, cnames |-> 0] >>


\* C2: once the client runs with at least one worker, every query submitted
\* with async_query eventually has its callback invoked (stop() is never
\* called; workers and timers are scheduled fairly).
C2_EventualCallback ==
  \A q \in Q :
    (phase = "running" /\ n_workers_ >= 1 /\ qstate[q] # "idle")
      ~> (Len(cbs[q]) = 1)

\* Two queries are in flight at once, no reply was delivered to either, a
\* datagram was dropped, and both got their callback by timeout.
C2_Witness ==
  /\ \A q \in Q : cbs[q] = << CbTimeout >>
  /\ recv = "armed" /\ response # NoDgram

\* C4: a well-formed answer of the nameserver to the request of a query that
\* was sent without error, handled while the query is not done (before its
\* timer expiry is handled), gives that query SUCCESS with the answer's
\* content; and a query gets SUCCESS only from a well-formed datagram of the
\* nameserver that carries its ID.  So such a query ends with TIMEOUT exactly
\* when no such answer was handled before its timer expiry.
C4_ReplyIffNotTimeout ==
  [][\A q \in Q :
       /\ (DatagramStep /\ remote = nameserver_ /\ response.wellformed
             /\ response.q = q /\ onWire[q] /\ ~done[q])
            => cbs'[q] = << CbSuccess(response.flags, response.an) >>
       /\ (cbs'[q] # cbs[q] /\ cbs'[q][1].result = "SUCCESS")
            => /\ DatagramStep /\ remote = nameserver_ /\ response.wellformed
               /\ response.id = id[q]]_vars

\* The same with the query still holding the table entry of its ID: the
\* answer is then always delivered to it.
ReplyToOwnEntrySucceeds ==
  [][\A q \in Q :
       /\ (DatagramStep /\ remote = nameserver_ /\ response.wellformed
             /\ response.q = q /\ onWire[q] /\ ~done[q] /\ queries_[id[q]] = q)
            => cbs'[q] = << CbSuccess(response.flags, response.an) >>
       /\ (cbs'[q] # cbs[q] /\ cbs'[q][1].result = "SUCCESS")
            => /\ DatagramStep /\ remote = nameserver_ /\ response.wellformed
               /\ response.id = id[q]]_vars

\* C11: the queries that are in the table when stop() is performed are
\* abandoned: once stop() has returned no callback is invoked for any query
\* and no done flag, table entry or timer changes; and the handler of the
\* receive that the close of the socket aborted ends the receive loop
\* without invoking a callback or touching the table.
C11_StopAbandons ==
  [][/\ phase = "stopped" => UNCHANGED << cbs, done, queries_, timer >>
     /\ (HandlerStep /\ rerr = "aborted")
          => recv' = "ended" /\ UNCHANGED << cbs, done, queries_, timer >>]_vars

\* stop() has returned with a query that is not done still in the table, the
\* expiry of its timer queued, and the aborted receive handled.
C11_Witness ==
  /\ phase = "stopped"
  /\ recv = "ended" /\ rerr = "aborted"
  /\ \E q \in Q : InTable(q) /\ ~done[q] /\ cbs[q] = << >>
                    /\ timer[q] = "expired"

\* A step that mutates the table, arms or cancels a timer, submits a send or
\* runs the receive handler.
StrandOp ==
  \/ queries_' # queries_
  \/ \E q \in Q : timer'[q] # timer[q] /\ timer'[q] \in {"waiting", "cancelled"}
  \/ \E q \in Q : send[q] = "none" /\ send'[q] # "none"
  \/ HandlerStep

\* Such a step is taken by a worker, and while a task of the strand is in
\* progress only as the continuation of that task.
StrandOpsSerialized ==
  [][StrandOp =>
       /\ n_workers_ >= 1
       /\ Cardinality({p \in Q : qstate[p] = "installed"}) <= 1
       /\ \A p \in Q : qstate[p] = "installed" => qstate'[p] = "active"]_vars

\* C12: every table mutation, timer arm or cancel, send submission and run
\* of the receive handler executes on the strand, so no two of them run
\* concurrently; and no operation on the socket, its close included, runs
\* while a task of the strand is in progress.
C12_SocketOpsOnStrand ==
  [][/\ StrandOp =>
          /\ n_workers_ >= 1
          /\ Cardinality({p \in Q : qstate[p] = "installed"}) <= 1
          /\ \A p \in Q : qstate[p] = "installed" => qstate'[p] = "active"
     /\ socket_open' # socket_open => ~StrandBusy]_vars

\* The callbacks of the three handlers (SUCCESS, TIMEOUT, ERROR of a failed
\* send) are invoked by a worker as a task of the strand, no other task
\* being in progress.
HandlerCallbacksOnStrand ==
  [][\A q \in Q : (cbs'[q] # cbs[q] /\ qstate'[q] # "failed") => CanStartTask]_vars

\* C13: every invocation of a user callback, the ERROR of an encode failure
\* included, is made by a worker thread as a task of the strand, so it never
\* runs while another task of the strand (and its callback) is in progress.
C13_CallbacksOnStrand ==
  [][\A q \in Q : cbs'[q] # cbs[q] => CanStartTask]_vars

\* C14: start() always leaves at least one worker executing the tasks of the
\* client, also for a client constructed with n_workers = 0.
C14_StartLeavesWorker == phase = "running" => n_workers_ >= 1

\* The completion handler of query q's timer runs in this step.
TimerStep(q) == timer[q] \in {"expired", "cancelled"} /\ timer'[q] = "finished"

\* C15: the completion of the timer of a query whose done flag is already
\* set is a no-op: no callback, no change of the table, no change of a done
\* flag; both when the timer was cancelled (aborted status) and when it had
\* expired before it could be cancelled (success status).
C15_TimerAfterDoneNoOp ==
  [][\A q \in Q : (TimerStep(q) /\ done[q])
                    => UNCHANGED << cbs, queries_, done >>]_vars

\* The timer handler of one query ran after the query got SUCCESS and left
\* that as its only callback; the timer of the other query expired before
\* its send error was handled, and the expiry is queued for the done query.
C15_Witness ==
  \E q, p \in Q :
    /\ timer[q] = "finished" /\ Len(cbs[q]) = 1 /\ cbs[q][1].result = "SUCCESS"
    /\ timer[p] = "expired" /\ done[p] /\ cbs[p] = << CbError >>

\* The completion handler of query q's send runs in this step.
SendStep(q) == send[q] \in {"ok", "err"} /\ send'[q] = "finished"

\* C16: when the send of a query completes with an error and the query is
\* not done, its timer is cancelled, its callback is invoked with ERROR and
\* empty lists, its done flag is set and it is no longer in the table; when
\* the send completes without error, or with an error for a query that is
\* done, no callback is invoked and neither the table nor any timer nor any
\* done flag changes.
C16_SendCompletion ==
  [][\A q \in Q :
       SendStep(q) =>
         IF send[q] = "err" /\ ~done[q]
           THEN /\ cbs' = [cbs EXCEPT ![q] = Append(@, CbError)]
                /\ done' = [done EXCEPT ![q] = TRUE]
                /\ ~(\E k \in Ids : queries_'[k] = q)
                /\ timer'[q] # "waiting"
                /\ \A p \in Q \ {q} : timer'[p] = timer[p]
           ELSE UNCHANGED << cbs, queries_, timer, done >>]_vars

\* One query got ERROR from its failed send, which cancelled its waiting
\* timer; the send of the other completed without error and its handler
\* left the query, not done, in the table.
C16_Witness ==
  \E q, p \in Q :
    /\ send[q] = "finished" /\ cbs[q] = << CbError >> /\ timer[q] = "cancelled"
    /\ send[p] = "finished" /\ onWire[p] /\ ~done[p] /\ InTable(p)
         /\ cbs[p] = << >>

\* After the completion of a receive that delivered a datagram, whatever
\* becomes of the datagram, a new receive is issued.
DatagramAlwaysReissues == [][DatagramStep => Reissued]_vars

\* C17: while the client is running (started, stop() not called) the receive
\* loop never ends: the handler of every receive completion leaves a new
\* receive outstanding.
C17_ReceiveLoopNeverEnds ==
  [][(phase = "running" /\ HandlerStep) => recv' = "armed"]_vars

\* The terminal outcome of a query leaves the entry, the timer and the done
\* flag of every query with a different ID unchanged.
OutcomeKeepsOtherIds ==
  [][\A q \in Q : cbs'[q] # cbs[q] =>
       \A p \in Q \ {q} :
         id[p] # id[q] =>
           /\ \A k \in Ids : queries_[k] = p => queries_'[k] = p
           /\ timer'[p] = timer[p]
           /\ done'[p] = done[p]]_vars

\* C18: when a query reaches its terminal outcome (reply, timeout or send
\* error) the only table entry removed is its own: the entry, the timer and
\* the done flag of every other query are unchanged, so another query that
\* is in the table stays there.
C18_OnlyOwnEntryRemoved ==
  [][\A q \in Q : cbs'[q] # cbs[q] =>
       \A p \in Q \ {q} :
         /\ \A k \in Ids : queries_[k] = p => queries_'[k] = p
         /\ timer'[p] = timer[p]
         /\ done'[p] = done[p]]_vars

\* Query q gets SUCCESS in this step.
SuccessStep(q) ==
  cbs'[q] # cbs[q] /\ cbs'[q][Len(cbs'[q])].result = "SUCCESS"

\* No other pending query shares the ID of q.
OwnsId(q) == \A p \in Q \ {q} : ~(Registered(p) /\ ~done[p] /\ id[p] = id[q])

\* C19: the SUCCESS callback of a query carries the content of a datagram
\* that the nameserver sent in reply to that query's own request; the reply
\* to a different query, in particular the late reply to an earlier query
\* that has terminated and whose ID the query uses again, is never delivered
\* to it.  Stated for the replies of the nameserver and for a query that
\* shares its ID with no other pending query.
C19_ReplyToOwnRequest ==
  [][\A q \in Q :
       (SuccessStep(q) /\ response.q # NoQuery /\ OwnsId(q))
          => response.q = q]_vars

\* The static buffer or the sender endpoint is written in this step.
BufferWritten == << response, remote >>' # << response, remote >>

=============================================================================
